---- MODULE Spec2Model ----
(***************************************************************************)
(* Resource aggregation and constraint validation of the data-center       *)
(* planner (backend-api/core): the placement ledger (ActiveModule), the    *)
(* aggregation engine (ModuleCalculationService), the value store          *)
(* (DataCenterValue) and the validator (DataCenterComponentService).       *)
(*                                                                         *)
(* The DataCenterValue table has no uniqueness constraint.  It is kept as  *)
(* a function from the key <<data_center, component, unit>> to the         *)
(* sequence of the values of the rows with that key, in primary-key order: *)
(* the code never depends on the order of rows with different keys.        *)
(***************************************************************************)
EXTENDS Integers, Sequences, FiniteSets, TLC

\* ------------------------------------------------------------------ bounds
MaxPlacements == 2

\* ----------------------------------------------------------------- catalog
None == "None"

DataCenters == {"D0", "D1"}
\* DataCenter.get_default(): the data center named "Default Data Center"
DefaultDataCenter == "D0"

space_x == [d \in DataCenters |-> IF d = "D0" THEN 15 ELSE 100]
space_y == [d \in DataCenters |-> IF d = "D0" THEN 5 ELSE 50]

Components == {"A", "B", "C"}
\* DataCenterComponent.name is not unique: create_data_center creates the
\* components of its file again for every data center
name == [c \in Components |-> IF c = "B" THEN "Hall" ELSE "Rack"]

Units == {"Power", "Space_X", "Space_Y", "Price"}
SpaceUnits == {"Space_X", "Space_Y"}

Modules == {"PSU", "Cabinet"}

ModuleAttribute(u, a, i, o) ==
    [unit |-> u, amount |-> a, is_input |-> i, is_output |-> o]

\* Module.attributes, in primary-key order
attributes ==
    [m \in Modules |->
        IF m = "PSU"
        THEN << ModuleAttribute("Power", 500, FALSE, TRUE),
                ModuleAttribute("Space_X", 10, FALSE, TRUE),
                ModuleAttribute("Space_Y", 3, FALSE, TRUE) >>
        ELSE << ModuleAttribute("Power", 200, TRUE, FALSE),
                ModuleAttribute("Space_X", 20, TRUE, FALSE),
                ModuleAttribute("Space_Y", 4, TRUE, TRUE),
                ModuleAttribute("Price", 7, FALSE, FALSE) >>]

DataCenterComponentAttribute(u, a, b, ab, mi, ma, un) ==
    [unit |-> u, amount |-> a, below_amount |-> b, above_amount |-> ab,
     minimize |-> mi, maximize |-> ma, unconstrained |-> un]

\* DataCenterComponent.attributes, in primary-key order
specifications ==
    [c \in Components |->
        IF c = "A"
        THEN << DataCenterComponentAttribute("Power", 500, 0, 1, 0, 0, 0),
                DataCenterComponentAttribute("Price", -1, 0, 0, 0, 0, 1),
                DataCenterComponentAttribute("Space_X", 5, 1, 0, 0, 0, 0),
                DataCenterComponentAttribute("Power", 0, 0, 0, 1, 0, 0) >>
        ELSE IF c = "B"
        THEN << DataCenterComponentAttribute("Power", 500, 1, 0, 0, 0, 0),
                DataCenterComponentAttribute("Space_X", 0, 0, 0, 1, 0, 0),
                DataCenterComponentAttribute("Space_Y", 3, 1, 0, 0, 0, 1),
                DataCenterComponentAttribute("Power", -1, 1, 0, 0, 0, 0),
                DataCenterComponentAttribute("Power", 9999, 0, 0, 0, 1, 0),
                DataCenterComponentAttribute("Power", 300, 1, 0, 0, 0, 0) >>
        ELSE << DataCenterComponentAttribute("Power", 400, 0, 1, 0, 0, 0) >>]

Points == {<<0, 0>>}
\* the positions a placement is moved to
MoveTargets == {<<1, 1>>}

\* the create requests issued: <<module, data_center_component, data_center>>
PlaceRequests ==
    { <<"PSU", None, "D1">>, <<"PSU", None, None>>, <<"PSU", "A", None>>,
      <<"Cabinet", "A", None>>, <<"PSU", "B", None>>,
      <<"PSU", "A", "D0">>, <<"Cabinet", "B", "D1">> }

\* ------------------------------------------------------------ value store
Scopes == Components \cup {None}
Keys == DataCenters \X Scopes \X Units

EmptyStore == [k \in Keys |-> <<>>]

\* A store left behind by earlier revisions: duplicate rows for one global
\* and one component key, and hand-set values.
LegacyStore ==
    [k \in Keys |->
        IF k = <<"D1", None, "Power">> THEN <<7, 9>>
        ELSE IF k = <<"D1", "A", "Power">> THEN <<3, 4>>
        ELSE IF k = <<"D0", None, "Space_X">> THEN <<999>>
        ELSE <<>>]

EmptyMap == [x \in {} |-> 0]

Get(map, k, default) == IF k \in DOMAIN map THEN map[k] ELSE default

VARIABLES
    active_modules,   \* the ActiveModule table: a set of rows
    next_id,          \* the next ActiveModule primary key
    component_dc,     \* DataCenterComponent.data_center, None when null
    store,            \* the DataCenterValue table
    legacy,           \* whether the run started from LegacyStore
    contributed,      \* history: <<dc, unit>> whose global row was written
                      \* from a selected placement by a recompute
    last,             \* the last operation and what it returned
    pending           \* per worker: the totals a recalculation in flight has
                      \* aggregated and not yet written, NoCall when idle

vars == <<active_modules, next_id, component_dc, store, legacy, contributed, last, pending>>

\* ------------------------------------------------------------- aggregation
\* ActiveModule.objects.filter(Q(data_center=dc) |
\*                             Q(data_center_component__data_center=dc))
SelectedFor(ams, cdc, dc) ==
    {am \in ams :
        \/ am.data_center = dc
        \/ (am.data_center_component # None /\ cdc[am.data_center_component] = dc)}

EmptyResults == [global_values |-> EmptyMap, component_values |-> EmptyMap]

\* faulty variant: the amount is added to every component that already has the unit
AddAttributeLeaky(res, component, attr) ==
    LET unit == attr.unit
        delta == IF attr.is_input THEN 0 - attr.amount
                 ELSE IF attr.is_output THEN attr.amount ELSE 0
        g0 == res.global_values
        c0 == res.component_values
        g1 == IF unit \notin DOMAIN g0 THEN g0 @@ (unit :> 0) ELSE g0
        c1 == IF component # None /\ unit \notin DOMAIN c0[component]
              THEN [c0 EXCEPT ![component] = @ @@ (unit :> 0)]
              ELSE c0
    IN  [global_values |-> [g1 EXCEPT ![unit] = @ + delta],
         component_values |->
            [c \in DOMAIN c1 |->
                [u \in DOMAIN c1[c] |->
                    IF u = unit THEN c1[c][u] + delta ELSE c1[c][u]]]]

\* faulty variant: an attribute with both flags set is added and subtracted
AddAttributeNet(res, component, attr) ==
    LET unit == attr.unit
        delta == (IF attr.is_output THEN attr.amount ELSE 0)
                 - (IF attr.is_input THEN attr.amount ELSE 0)
        g0 == res.global_values
        c0 == res.component_values
        g1 == IF unit \notin DOMAIN g0 THEN g0 @@ (unit :> 0) ELSE g0
        c1 == IF component # None /\ unit \notin DOMAIN c0[component]
              THEN [c0 EXCEPT ![component] = @ @@ (unit :> 0)]
              ELSE c0
    IN  [global_values |-> [g1 EXCEPT ![unit] = @ + delta],
         component_values |->
            IF component # None
            THEN [c1 EXCEPT ![component][unit] = @ + delta]
            ELSE c1]

\* one pass of the inner loop of calculate_resource_usage
AddAttribute(res, component, attr) ==
    LET unit == attr.unit
        amount == attr.amount
        g0 == res.global_values
        c0 == res.component_values
        g1 == IF unit \notin DOMAIN g0 THEN g0 @@ (unit :> 0) ELSE g0
        c1 == IF component # None /\ unit \notin DOMAIN c0[component]
              THEN [c0 EXCEPT ![component] = @ @@ (unit :> 0)]
              ELSE c0
    IN  IF attr.is_input
        THEN [global_values |-> [g1 EXCEPT ![unit] = @ - amount],
              component_values |->
                  IF component # None
                  THEN [c1 EXCEPT ![component][unit] = @ - amount]
                  ELSE c1]
        ELSE IF attr.is_output
        THEN [global_values |-> [g1 EXCEPT ![unit] = @ + amount],
              component_values |->
                  IF component # None
                  THEN [c1 EXCEPT ![component][unit] = @ + amount]
                  ELSE c1]
        ELSE [global_values |-> g1, component_values |-> c1]

RECURSIVE AddAttributes(_, _, _, _)
AddAttributes(res, component, attrs, i) ==
    IF i > Len(attrs) THEN res
    ELSE AddAttributes(AddAttribute(res, component, attrs[i]), component, attrs, i + 1)

\* one pass of the outer loop of calculate_resource_usage
AddActiveModule(res, am) ==
    LET component == am.data_center_component
        c0 == res.component_values
        r1 == IF component # None /\ component \notin DOMAIN c0
              THEN [res EXCEPT !.component_values = c0 @@ (component :> EmptyMap)]
              ELSE res
    IN  AddAttributes(r1, component, attributes[am.module], 1)

RECURSIVE Aggregate(_, _)
Aggregate(res, ams) ==
    IF ams = {} THEN res
    ELSE LET am == CHOOSE a \in ams : \A b \in ams : a.id <= b.id
         IN  Aggregate(AddActiveModule(res, am), ams \ {am})

\* faulty variant: an existing row keeps its value (get_or_create without the update)
UpsertRowsKeep(rows, value) ==
    IF Len(rows) > 0 THEN SubSeq(rows, 1, 1) ELSE Append(rows, value)

\* faulty variant: a new row is created whether or not the key already has one
UpsertRowsAppend(rows, value) == Append(rows, value)

\* faulty variant: the first row is updated and the duplicates are kept
UpsertRowsNoDedupe(rows, value) ==
    IF Len(rows) > 0 THEN [rows EXCEPT ![1] = value] ELSE Append(rows, value)

\* the upsert of one key in calculate_resource_usage
UpsertRows(rows, value) ==
    IF Len(rows) > 0
    THEN IF Len(rows) > 1
         THEN \* primary_value = values.first(); the others are deleted
              SubSeq([rows EXCEPT ![1] = value], 1, 1)
         ELSE [rows EXCEPT ![1] = value]
    ELSE Append(rows, value)

\* "for unit, value in ...items()": one upsert per computed key
RECURSIVE PersistKeys(_, _, _, _)
PersistKeys(st, dc, res, keys) ==
    IF keys = {} THEN st
    ELSE LET k == CHOOSE x \in keys : TRUE
             value == IF k[2] = None THEN res.global_values[k[3]]
                      ELSE res.component_values[k[2]][k[3]]
         IN  PersistKeys([st EXCEPT ![k] = UpsertRows(@, value)], dc, res, keys \ {k})

\* faulty variant: the rows of dc that get no computed value are reset to 0
PersistResultsReset(st, dc, res) ==
    LET computed == {k \in Keys :
                        /\ k[1] = dc
                        /\ IF k[2] = None THEN k[3] \in DOMAIN res.global_values
                           ELSE /\ k[2] \in DOMAIN res.component_values
                                /\ k[3] \in DOMAIN res.component_values[k[2]]}
    IN  PersistKeys([k \in Keys |->
                        IF k[1] = dc /\ k \notin computed /\ Len(st[k]) > 0
                        THEN <<0>> ELSE st[k]],
                    dc, res, computed)

\* the two persist blocks of calculate_resource_usage
PersistResults(st, dc, res) ==
    PersistKeys(st, dc, res,
        {k \in Keys : /\ k[1] = dc
                      /\ IF k[2] = None THEN k[3] \in DOMAIN res.global_values
                         ELSE /\ k[2] \in DOMAIN res.component_values
                              /\ k[3] \in DOMAIN res.component_values[k[2]]})

\* calculate_resource_usage(active_modules, data_center): the totals
calculate_resource_usage(ams) == Aggregate(EmptyResults, ams)

\* faulty variant: a unit without a component row takes the global row's value
ReadBackFallback(st, dc) ==
    [global_values |->
        [u \in {u \in Units : Len(st[<<dc, None, u>>]) > 0} |->
            st[<<dc, None, u>>][Len(st[<<dc, None, u>>])]],
     component_values |->
        [c \in Components |->
            [u \in {u \in Units : Len(st[<<dc, c, u>>]) > 0
                                    \/ Len(st[<<dc, None, u>>]) > 0} |->
                IF Len(st[<<dc, c, u>>]) > 0
                THEN st[<<dc, c, u>>][Len(st[<<dc, c, u>>])]
                ELSE st[<<dc, None, u>>][Len(st[<<dc, None, u>>])]]]]

\* the read-back of force_recalculate_values: a later row of a key
\* overwrites an earlier one in the dict
ReadBack(st, dc) ==
    [global_values |->
        [u \in {u \in Units : Len(st[<<dc, None, u>>]) > 0} |->
            st[<<dc, None, u>>][Len(st[<<dc, None, u>>])]],
     component_values |->
        [c \in {c \in Components : \E u \in Units : Len(st[<<dc, c, u>>]) > 0} |->
            [u \in {u \in Units : Len(st[<<dc, c, u>>]) > 0} |->
                st[<<dc, c, u>>][Len(st[<<dc, c, u>>])]]]]


\* ------------------------------------------------------------- validation
\* DataCenterComponent rows in primary-key order
ComponentOrder == <<"A", "B", "C">>

EmptyValidation == [passed |-> TRUE, dict |-> <<>>, warnings |-> <<>>]

\* unique_violations_dict[key] = message: a dict keeps the position of a
\* key that is already present
DictSet(dict, key, message) ==
    IF \E j \in 1..Len(dict) : dict[j].key = key
    THEN [j \in 1..Len(dict) |->
            IF dict[j].key = key THEN [key |-> key, message |-> message] ELSE dict[j]]
    ELSE Append(dict, [key |-> key, message |-> message])

\* faulty variant: the message is recorded and the verdict is left as it was
ViolationVerdictKept(acc, comp, i, unit, kind, current_value, bound) ==
    LET message == [kind |-> kind, name |-> name[comp], unit |-> unit,
                    current_value |-> current_value, bound |-> bound]
    IN  [passed |-> acc.passed,
         dict |-> DictSet(acc.dict, <<name[comp], unit, kind>>, message),
         warnings |-> Append(acc.warnings,
                             [component |-> comp, attr |-> i, message |-> message])]

\* validation_passed = False; unique_violations_dict[key] = message;
\* logger.warning(message)
Violation(acc, comp, i, unit, kind, current_value, bound) ==
    LET message == [kind |-> kind, name |-> name[comp], unit |-> unit,
                    current_value |-> current_value, bound |-> bound]
    IN  [passed |-> FALSE,
         dict |-> DictSet(acc.dict, <<name[comp], unit, kind>>, message),
         warnings |-> Append(acc.warnings,
                             [component |-> comp, attr |-> i, message |-> message])]

\* faulty variant: Below and Above fail on equality as well
ValidateAttributeStrict(acc, comp, i, comp_values, dc) ==
    LET attr == specifications[comp][i]
        unit == attr.unit
        amount == attr.amount
        current_value == Get(comp_values, unit, 0)
        total_space == IF unit = "Space_X" THEN space_x[dc] ELSE space_y[dc]
    IN  IF attr.unconstrained # 0 \/ attr.amount = -1 THEN acc
        ELSE IF unit \in SpaceUnits
        THEN IF current_value > total_space
             THEN Violation(acc, comp, i, unit, "exceeds", current_value, total_space)
             ELSE acc
        ELSE LET a1 == IF attr.below_amount # 0 /\ current_value >= amount
                       THEN Violation(acc, comp, i, unit, "below", current_value, amount)
                       ELSE acc
             IN  IF attr.above_amount # 0 /\ current_value <= amount
                 THEN Violation(a1, comp, i, unit, "above", current_value, amount)
                 ELSE a1

\* faulty variant: the exemption of unconstrained and amount -1 is not applied
ValidateAttributeNoSkip(acc, comp, i, comp_values, dc) ==
    LET attr == specifications[comp][i]
        unit == attr.unit
        amount == attr.amount
        current_value == Get(comp_values, unit, 0)
        total_space == IF unit = "Space_X" THEN space_x[dc] ELSE space_y[dc]
    IN  IF unit \in SpaceUnits
        THEN IF current_value > total_space
             THEN Violation(acc, comp, i, unit, "exceeds", current_value, total_space)
             ELSE acc
        ELSE LET a1 == IF attr.below_amount # 0 /\ current_value > amount
                       THEN Violation(acc, comp, i, unit, "below", current_value, amount)
                       ELSE acc
             IN  IF attr.above_amount # 0 /\ current_value < amount
                 THEN Violation(a1, comp, i, unit, "above", current_value, amount)
                 ELSE a1

\* faulty variant: minimize is enforced as Below and maximize as Above
ValidateAttributeAdvisory(acc, comp, i, comp_values, dc) ==
    LET attr == specifications[comp][i]
        unit == attr.unit
        amount == attr.amount
        current_value == Get(comp_values, unit, 0)
        total_space == IF unit = "Space_X" THEN space_x[dc] ELSE space_y[dc]
    IN  IF attr.unconstrained # 0 \/ attr.amount = -1 THEN acc
        ELSE IF unit \in SpaceUnits
        THEN IF current_value > total_space
             THEN Violation(acc, comp, i, unit, "exceeds", current_value, total_space)
             ELSE acc
        ELSE LET a1 == IF (attr.below_amount # 0 \/ attr.minimize # 0)
                          /\ current_value > amount
                       THEN Violation(acc, comp, i, unit, "below", current_value, amount)
                       ELSE acc
             IN  IF (attr.above_amount # 0 \/ attr.maximize # 0)
                    /\ current_value < amount
                 THEN Violation(a1, comp, i, unit, "above", current_value, amount)
                 ELSE a1

\* faulty variant: a space unit is compared with the specification's amount
ValidateAttributeAmount(acc, comp, i, comp_values, dc) ==
    LET attr == specifications[comp][i]
        unit == attr.unit
        amount == attr.amount
        current_value == Get(comp_values, unit, 0)
    IN  IF attr.unconstrained # 0 \/ attr.amount = -1 THEN acc
        ELSE IF unit \in SpaceUnits
        THEN IF current_value > amount
             THEN Violation(acc, comp, i, unit, "exceeds", current_value, amount)
             ELSE acc
        ELSE LET a1 == IF attr.below_amount # 0 /\ current_value > amount
                       THEN Violation(acc, comp, i, unit, "below", current_value, amount)
                       ELSE acc
             IN  IF attr.above_amount # 0 /\ current_value < amount
                 THEN Violation(a1, comp, i, unit, "above", current_value, amount)
                 ELSE a1

\* the body of "for attr in attributes" of validate_component_values
ValidateAttribute(acc, comp, i, comp_values, dc) ==
    LET attr == specifications[comp][i]
        unit == attr.unit
        amount == attr.amount
        current_value == Get(comp_values, unit, 0)
        total_space == IF unit = "Space_X" THEN space_x[dc] ELSE space_y[dc]
    IN  IF attr.unconstrained # 0 \/ attr.amount = -1 THEN acc
        ELSE IF unit \in SpaceUnits
        THEN IF current_value > total_space
             THEN Violation(acc, comp, i, unit, "exceeds", current_value, total_space)
             ELSE acc
        ELSE LET a1 == IF attr.below_amount # 0 /\ current_value > amount
                       THEN Violation(acc, comp, i, unit, "below", current_value, amount)
                       ELSE acc
             IN  IF attr.above_amount # 0 /\ current_value < amount
                 THEN Violation(a1, comp, i, unit, "above", current_value, amount)
                 ELSE a1

RECURSIVE ValidateAttributes(_, _, _, _, _)
ValidateAttributes(acc, comp, i, comp_values, dc) ==
    IF i > Len(specifications[comp]) THEN acc
    ELSE ValidateAttributes(ValidateAttribute(acc, comp, i, comp_values, dc),
                            comp, i + 1, comp_values, dc)

RECURSIVE ValidateComponents(_, _, _, _, _)
ValidateComponents(acc, comps, j, component_values, dc) ==
    IF j > Len(comps) THEN acc
    ELSE ValidateComponents(
            ValidateAttributes(acc, comps[j], 1,
                               Get(component_values, comps[j], EmptyMap), dc),
            comps, j + 1, component_values, dc)

IsMember(c, cdc, dc) == cdc[c] = dc

\* the components validate_component_values checks
ComponentsToCheck(component, cdc, dc) ==
    IF component # None THEN <<component>>
    ELSE LET IsOf(c) == IsMember(c, cdc, dc)
             of_dc == SelectSeq(ComponentOrder, IsOf)
         IN  IF Len(of_dc) > 0 THEN of_dc ELSE ComponentOrder

\* the part of validate_component_values after the recalculation
CheckValues(component, cdc, dc, calculated_values) ==
    ValidateComponents(EmptyValidation, ComponentsToCheck(component, cdc, dc), 1,
                       calculated_values.component_values, dc)

Messages(dict) == [j \in 1..Len(dict) |-> dict[j].message]

NoReturn ==
    [op |-> "none", data_center |-> None, component |-> None, id |-> 0,
     error |-> FALSE, again |-> FALSE,
     results |-> EmptyResults, values |-> EmptyResults,
     validation_passed |-> TRUE, violations |-> <<>>, warnings |-> <<>>,
     available |-> <<0, 0>>, listed |-> {}]

RecomputeOps == {"recalculate_all_values", "force_recalculate_values"}

Contributed(dc, res) == {<<dc, u>> : u \in DOMAIN res.global_values}

\* ----------------------------------------------------------------- actions
\* request workers that may each run one recalculation at a time
Workers == {1, 2}

\* a worker with no recalculation in flight
NoCall == [data_center |-> None, results |-> EmptyResults]

Init ==
    /\ active_modules = {}
    /\ next_id = 1
    /\ component_dc = [c \in Components |-> IF c = "A" THEN "D1" ELSE None]
    /\ legacy \in BOOLEAN
    /\ store = IF legacy THEN LegacyStore ELSE EmptyStore
    /\ contributed = {}
    /\ last = NoReturn
    /\ pending = [w \in Workers |-> NoCall]

\* DataCenterValueService.recalculate_all_values(data_center)
recalculate_all_values(dc) ==
    \E res \in {calculate_resource_usage(SelectedFor(active_modules, component_dc, dc))} :
        /\ store' = PersistResults(store, dc, res)
        /\ contributed' = contributed \cup Contributed(dc, res)
        /\ last' = [NoReturn EXCEPT !.op = "recalculate_all_values",
                                    !.data_center = dc,
                                    !.again = (last.op \in RecomputeOps
                                               /\ last.data_center = dc),
                                    !.results = res]
        /\ UNCHANGED <<active_modules, next_id, component_dc, legacy, pending>>

\* DataCenterValueService.force_recalculate_values(data_center)
force_recalculate_values(dc) ==
    \E res \in {calculate_resource_usage(SelectedFor(active_modules, component_dc, dc))} :
    \E st1 \in {PersistResults(store, dc, res)} :
        /\ store' = st1
        /\ contributed' = contributed \cup Contributed(dc, res)
        /\ last' = [NoReturn EXCEPT !.op = "force_recalculate_values",
                                    !.data_center = dc,
                                    !.again = (last.op \in RecomputeOps
                                               /\ last.data_center = dc),
                                    !.results = res,
                                    !.values = ReadBack(st1, dc)]
        /\ UNCHANGED <<active_modules, next_id, component_dc, legacy, pending>>

\* faulty variant: the component's data center is preferred to the explicit one
ResolveDataCenterComponentFirst(component, data_center_id, cdc) ==
    IF component # None /\ cdc[component] # None THEN cdc[component]
    ELSE IF data_center_id # None THEN data_center_id
    ELSE DefaultDataCenter

\* the data center create_active_module resolves
ResolveDataCenter(component, data_center_id, cdc) ==
    IF data_center_id # None THEN data_center_id
    ELSE IF component # None /\ cdc[component] # None
    THEN cdc[component]
    ELSE DefaultDataCenter

\* ActiveModuleService.create_active_module(data)
create_active_module(module, component, data_center_id, point) ==
    /\ next_id <= MaxPlacements
    /\ \E data_center \in {ResolveDataCenter(component, data_center_id, component_dc)} :
       \E ams1 \in {active_modules \cup
                      {[id |-> next_id, point |-> point, module |-> module,
                        data_center_component |-> component,
                        data_center |-> data_center]}} :
       \E cdc1 \in {IF component # None /\ component_dc[component] = None
                    THEN [component_dc EXCEPT ![component] = data_center]
                    ELSE component_dc} :
       \* DataCenterValueService.force_recalculate_values(data_center)
       \E res \in {calculate_resource_usage(SelectedFor(ams1, cdc1, data_center))} :
       \E st1 \in {PersistResults(store, data_center, res)} :
           /\ active_modules' = ams1
           /\ next_id' = next_id + 1
           /\ component_dc' = cdc1
           /\ store' = st1
           /\ contributed' = contributed \cup Contributed(data_center, res)
           /\ last' = [NoReturn EXCEPT !.op = "create_active_module",
                                       !.data_center = data_center,
                                       !.component = component,
                                       !.id = next_id,
                                       !.results = res,
                                       !.values = ReadBack(st1, data_center)]
           /\ UNCHANGED <<legacy, pending>>

\* faulty variant: an absent id is not reported
update_active_module_position_silent(active_module_id, point) ==
    /\ active_modules' = {IF am.id = active_module_id
                          THEN [am EXCEPT !.point = point] ELSE am :
                          am \in active_modules}
    /\ last' = [NoReturn EXCEPT !.op = "update_active_module_position",
                                !.id = active_module_id]
    /\ UNCHANGED <<next_id, component_dc, store, legacy, contributed, pending>>

\* ActiveModuleService.update_active_module_position(active_module_id, x, y);
\* ActiveModule.DoesNotExist is raised when the id is absent
update_active_module_position(active_module_id, point) ==
    /\ active_modules' = {IF am.id = active_module_id
                          THEN [am EXCEPT !.point = point] ELSE am :
                          am \in active_modules}
    /\ last' = [NoReturn EXCEPT !.op = "update_active_module_position",
                                !.id = active_module_id,
                                !.error = ~(\E am \in active_modules :
                                               am.id = active_module_id)]
    /\ UNCHANGED <<next_id, component_dc, store, legacy, contributed, pending>>

\* faulty variant: the removal is followed by a recalculation of the data center
delete_active_module_recalculating(active_module_id) ==
    \E ams1 \in {{am \in active_modules : am.id # active_module_id}} :
    \E dc \in {IF \E am \in active_modules : am.id = active_module_id
                THEN (CHOOSE am \in active_modules : am.id = active_module_id).data_center
                ELSE DefaultDataCenter} :
    \E res \in {calculate_resource_usage(SelectedFor(ams1, component_dc, dc))} :
        /\ active_modules' = ams1
        /\ store' = PersistResults(store, dc, res)
        /\ last' = [NoReturn EXCEPT !.op = "delete_active_module",
                                    !.id = active_module_id,
                                    !.error = ~(\E am \in active_modules :
                                                   am.id = active_module_id)]
        /\ UNCHANGED <<next_id, component_dc, legacy, contributed, pending>>

\* ActiveModuleService.delete_active_module(active_module_id)
delete_active_module(active_module_id) ==
    /\ active_modules' = {am \in active_modules : am.id # active_module_id}
    /\ last' = [NoReturn EXCEPT !.op = "delete_active_module",
                                !.id = active_module_id,
                                !.error = ~(\E am \in active_modules :
                                               am.id = active_module_id)]
    /\ UNCHANGED <<next_id, component_dc, store, legacy, contributed, pending>>

\* faulty variant: a missing data center falls back to the default one
validate_component_values_defaulting(component, dc) ==
    \E d \in {IF dc = None THEN DefaultDataCenter ELSE dc} :
    \E res \in {calculate_resource_usage(SelectedFor(active_modules, component_dc, d))} :
    \E st2 \in {PersistResults(PersistResults(store, d, res), d, res)} :
    \E calculated_values \in {ReadBack(st2, d)} :
    \E v \in {CheckValues(component, component_dc, d, calculated_values)} :
        /\ store' = st2
        /\ contributed' = contributed \cup Contributed(d, res)
        /\ last' = [NoReturn EXCEPT !.op = "validate_component_values",
                                    !.data_center = d,
                                    !.component = component,
                                    !.results = res,
                                    !.values = calculated_values,
                                    !.validation_passed = v.passed,
                                    !.violations = Messages(v.dict),
                                    !.warnings = v.warnings]
        /\ UNCHANGED <<active_modules, next_id, component_dc, legacy, pending>>

\* DataCenterComponentService.validate_component_values(component, data_center)
validate_component_values(component, dc) ==
    IF dc = None
    THEN /\ last' = [NoReturn EXCEPT !.op = "validate_component_values",
                                     !.component = component,
                                     !.error = TRUE]
         /\ UNCHANGED <<active_modules, next_id, component_dc, store, legacy, contributed, pending>>
    ELSE \E res \in {calculate_resource_usage(SelectedFor(active_modules, component_dc, dc))} :
         \E st1 \in {PersistResults(store, dc, res)} :
         \* force_recalculate_values(data_center) aggregates and persists again
         \E res2 \in {calculate_resource_usage(SelectedFor(active_modules, component_dc, dc))} :
         \E st2 \in {PersistResults(st1, dc, res2)} :
         \E calculated_values \in {ReadBack(st2, dc)} :
         \E v \in {CheckValues(component, component_dc, dc, calculated_values)} :
             /\ store' = st2
             /\ contributed' = contributed \cup Contributed(dc, res)
             /\ last' = [NoReturn EXCEPT !.op = "validate_component_values",
                                         !.data_center = dc,
                                         !.component = component,
                                         !.results = res2,
                                         !.values = calculated_values,
                                         !.validation_passed = v.passed,
                                         !.violations = Messages(v.dict),
                                         !.warnings = v.warnings]
             /\ UNCHANGED <<active_modules, next_id, component_dc, legacy, pending>>

\* faulty variant: the remaining space is clamped at 0
AvailableClamped(total, used) == IF total - used < 0 THEN 0 ELSE total - used

\* what the view reports as remaining space
Available(total, used) == total - used

\* views.calculate_resources for an existing data center
calculate_resources(dc) ==
    \E res \in {calculate_resource_usage(SelectedFor(active_modules, component_dc, dc))} :
    \E st1 \in {PersistResults(store, dc, res)} :
    \E results \in {ReadBack(st1, dc).global_values} :
    \* validate_component_values(None, data_center) recalculates twice more
    \E st2 \in {PersistResults(st1, dc, res)} :
    \E st3 \in {PersistResults(st2, dc, res)} :
    \E calculated_values \in {ReadBack(st3, dc)} :
    \E v \in {CheckValues(None, component_dc, dc, calculated_values)} :
        /\ store' = st3
        /\ contributed' = contributed \cup Contributed(dc, res)
        /\ last' = [NoReturn EXCEPT !.op = "calculate_resources",
                                    !.data_center = dc,
                                    !.results = res,
                                    !.values = [calculated_values EXCEPT
                                                  !.global_values = results],
                                    !.available =
                                        <<Available(space_x[dc], Get(results, "Space_X", 0)),
                                          Available(space_y[dc], Get(results, "Space_Y", 0))>>,
                                    !.validation_passed = v.passed,
                                    !.violations = IF ~v.passed THEN Messages(v.dict)
                                                   ELSE <<>>,
                                    !.warnings = v.warnings]
        /\ UNCHANGED <<active_modules, next_id, component_dc, legacy, pending>>

SpecificationUnits(c) ==
    {specifications[c][i].unit : i \in 1..Len(specifications[c])}

\* DataCenterValueService.initialize_values_from_components(data_center)
initialize_values_from_components(dc) ==
    LET \* first loop: unbound components are bound to data_center and saved
        cdc1 == [c \in Components |->
                    IF component_dc[c] = None THEN dc ELSE component_dc[c]]
        \* get_or_create raises MultipleObjectsReturned on a duplicated key;
        \* transaction.atomic() then rolls the value writes back
        multiple == \E c \in Components : \E u \in SpecificationUnits(c) :
                        Len(store[<<dc, c, u>>]) > 1
        st1 == [k \in Keys |->
                    IF k[1] = dc /\ k[2] \in Components
                       /\ k[3] \in SpecificationUnits(k[2])
                    THEN IF Len(store[k]) = 0
                         THEN <<0>>                       \* created with defaults
                         ELSE [store[k] EXCEPT ![1] = 0]  \* not created: value = 0
                    ELSE store[k]]
    IN  /\ component_dc' = cdc1
        /\ store' = IF multiple THEN store ELSE st1
        /\ last' = [NoReturn EXCEPT !.op = "initialize_values_from_components",
                                    !.data_center = dc,
                                    !.error = multiple,
                                    !.values = IF multiple THEN EmptyResults
                                               ELSE ReadBack(st1, dc)]
        /\ UNCHANGED <<active_modules, next_id, legacy, contributed, pending>>

Place == \E r \in PlaceRequests, p \in Points : create_active_module(r[1], r[2], r[3], p)

Remove == \E id \in 1..MaxPlacements : delete_active_module(id)

\* the placement ledger and the aggregation engine
Next ==
    \/ Place
    \/ Remove
    \/ \E dc \in DataCenters : recalculate_all_values(dc)
    \/ \E dc \in DataCenters : force_recalculate_values(dc)

Spec == Init /\ [][Next]_vars

\* the placement ledger and the constraint validator
NextValidate ==
    \/ Place
    \/ Remove
    \/ \E c \in Scopes, dc \in DataCenters : validate_component_values(c, dc)
    \/ validate_component_values(None, None)
    \/ \E dc \in DataCenters : calculate_resources(dc)

SpecValidate == Init /\ [][NextValidate]_vars

\* the placement ledger, the aggregation engine and the initialization pass
NextSeed ==
    \/ Place
    \/ Remove
    \/ \E dc \in DataCenters : force_recalculate_values(dc)
    \/ \E dc \in DataCenters : initialize_values_from_components(dc)

SpecSeed == Init /\ [][NextSeed]_vars

\* ActiveModuleService.get_all_active_modules(data_center)
get_all_active_modules(dc) ==
    /\ last' = [NoReturn EXCEPT
           !.op = "get_all_active_modules",
           !.data_center = dc,
           !.listed = IF dc # None
                      THEN {am \in active_modules :
                               /\ am.data_center_component # None
                               /\ component_dc[am.data_center_component] = dc}
                      ELSE active_modules]
    /\ UNCHANGED <<active_modules, next_id, component_dc, store, legacy, contributed, pending>>

Move == \E id \in 1..MaxPlacements, p \in MoveTargets : update_active_module_position(id, p)

\* the placement ledger with its three mutating operations and its list, and
\* one recompute
NextLedger ==
    \/ Place
    \/ Remove
    \/ Move
    \/ \E dc \in DataCenters : force_recalculate_values(dc)
    \/ \E dc \in DataCenters \cup {None} : get_all_active_modules(dc)

SpecLedger == Init /\ [][NextLedger]_vars

\* every operation that writes the ledger or the DataCenterValue table, one
\* at a time
NextStore ==
    \/ Place
    \/ Remove
    \/ Move
    \/ \E dc \in DataCenters : initialize_values_from_components(dc)
    \/ \E dc \in DataCenters : recalculate_all_values(dc)
    \/ \E dc \in DataCenters : validate_component_values(None, dc)

SpecStore == Init /\ [][NextStore]_vars

\* recalculate_all_values(data_center) run by a request worker, first
\* half: the selection is read and aggregated (the loop of
\* calculate_resource_usage), outside any transaction
calculate_resource_usage_read(w, dc) ==
    /\ pending[w] = NoCall
    /\ pending' = [pending EXCEPT ![w] =
           [data_center |-> dc,
            results |-> calculate_resource_usage(SelectedFor(active_modules, component_dc, dc))]]
    /\ last' = [NoReturn EXCEPT !.op = "calculate_resource_usage.read",
                                !.data_center = dc]
    /\ UNCHANGED <<active_modules, next_id, component_dc, store, legacy, contributed>>

\* second half: the transaction.atomic() block writes the aggregated totals
calculate_resource_usage_write(w) ==
    /\ pending[w] # NoCall
    /\ store' = PersistResults(store, pending[w].data_center, pending[w].results)
    /\ contributed' = contributed \cup Contributed(pending[w].data_center, pending[w].results)
    /\ last' = [NoReturn EXCEPT !.op = "recalculate_all_values",
                                !.data_center = pending[w].data_center,
                                !.results = pending[w].results]
    /\ pending' = [pending EXCEPT ![w] = NoCall]
    /\ UNCHANGED <<active_modules, next_id, component_dc, legacy>>

\* recalculations of several workers overlapping each other and the ledger's
\* operations
NextOverlap ==
    \/ Place
    \/ Remove
    \/ \E w \in Workers, dc \in DataCenters : calculate_resource_usage_read(w, dc)
    \/ \E w \in Workers : calculate_resource_usage_write(w)

SpecOverlap == Init /\ [][NextOverlap]_vars

\* ------------------------------------------------------------------ claims
Selected(dc) == SelectedFor(active_modules, component_dc, dc)

\* the operations that end with a recalculation of last.data_center
AggregatingOps ==
    {"create_active_module", "recalculate_all_values", "force_recalculate_values",
     "validate_component_values", "calculate_resources"}

Recomputed(dc) ==
    last.op \in AggregatingOps /\ ~last.error /\ last.data_center = dc

\* <<placement, index>> of the attributes with unit u of the placements ams
AttributesOn(ams, u) ==
    {x \in ams \X (1..4) :
        x[2] <= Len(attributes[x[1].module]) /\ attributes[x[1].module][x[2]].unit = u}

UnitsOf(ams) == {u \in Units : AttributesOn(ams, u) # {}}

\* an attribute is an Input when its input flag is set, else an Output when
\* its output flag is set
Signed(attr) ==
    IF attr.is_input THEN 0 - attr.amount
    ELSE IF attr.is_output THEN attr.amount
    ELSE 0

RECURSIVE SumSigned(_)
SumSigned(xs) ==
    IF xs = {} THEN 0
    ELSE LET x == CHOOSE y \in xs : TRUE
         IN  Signed(attributes[x[1].module][x[2]]) + SumSigned(xs \ {x})

RECURSIVE SumAmounts(_)
SumAmounts(xs) ==
    IF xs = {} THEN 0
    ELSE LET x == CHOOSE y \in xs : TRUE
         IN  attributes[x[1].module][x[2]].amount + SumAmounts(xs \ {x})

\* Value Store get(dataCenter, component?, unit), 0 when there is no row
StoredValue(st, dc, scope, u) ==
    IF Len(st[<<dc, scope, u>>]) = 0 THEN 0
    ELSE st[<<dc, scope, u>>][Len(st[<<dc, scope, u>>])]

\* C1: after a recompute of dc, every unit that is an attribute of a selected
\* placement has exactly one global row, whose value is the signed sum of the
\* selected placements' attributes on that unit, whatever the key held before.
C1_GlobalTotalIsSignedSum ==
    \A dc \in DataCenters :
        Recomputed(dc) =>
            \A u \in UnitsOf(Selected(dc)) :
                store[<<dc, None, u>>] = <<SumSigned(AttributesOn(Selected(dc), u))>>

\* C1 witness: the legacy key (D1, global, Power), which held the hand-set
\* duplicate rows 7 and 9, has been recomputed from two selected placements.
C1_Witness ==
    /\ legacy
    /\ Recomputed("D1")
    /\ last.op = "force_recalculate_values"
    /\ Cardinality(Selected("D1")) = 2
    /\ "Power" \in UnitsOf(Selected("D1"))
    /\ store[<<"D1", None, "Power">>] # LegacyStore[<<"D1", None, "Power">>]

\* C2 (as claimed): once every placement of dc is removed and dc is
\* recomputed, the global total of every unit the placements contributed to
\* is 0.
C2_AllRemovedGivesZero ==
    \A dc \in DataCenters : \A u \in Units :
        (Recomputed(dc) /\ Selected(dc) = {} /\ <<dc, u>> \in contributed)
            => StoredValue(store, dc, None, u) = 0

\* C3: a recompute of dc that directly follows a recompute of dc leaves the
\* DataCenterValue rows as they were and returns the same totals.
C3_RecomputeIdempotent ==
    [][(/\ last.op \in RecomputeOps
        /\ last'.op \in RecomputeOps
        /\ last'.data_center = last.data_center)
       => (/\ store' = store
           /\ last'.results = last.results
           /\ (last'.op = last.op => last'.values = last.values))]_vars

\* C3 witness: force_recalculate_values ran twice in a row on a data center
\* that has placements.
C3_Witness ==
    /\ last.again
    /\ last.op = "force_recalculate_values"
    /\ Selected(last.data_center) # {}
    /\ last.values.global_values # EmptyMap

\* C4: in the totals a recompute of dc computes and persists, the totals of a
\* component are the signed sums over the placements bound to that component
\* alone: placements of another component or of no component add nothing.
C4_ComponentIsolation ==
    \A dc \in DataCenters :
        (Recomputed(dc) /\ last.op \in RecomputeOps \cup {"create_active_module"}) =>
            \A b \in Components : \A u \in Units :
                LET mine == {am \in Selected(dc) : am.data_center_component = b}
                    cv == last.results.component_values
                IN  IF u \in UnitsOf(mine)
                    THEN /\ b \in DOMAIN cv
                         /\ u \in DOMAIN cv[b]
                         /\ cv[b][u] = SumSigned(AttributesOn(mine, u))
                         /\ store[<<dc, b, u>>] = <<SumSigned(AttributesOn(mine, u))>>
                    ELSE b \notin DOMAIN cv \/ u \notin DOMAIN cv[b]

\* C4 witness: a recompute over a placement bound to a component and a
\* placement bound to another component or to none.
C4_Witness ==
    \E dc \in DataCenters :
        /\ Recomputed(dc)
        /\ last.op \in RecomputeOps
        /\ \E a \in Selected(dc) : \E b \in Selected(dc) :
              /\ a.data_center_component \in Components
              /\ b.data_center_component # a.data_center_component
              /\ UnitsOf({a}) \cap UnitsOf({b}) # {}

\* C5 (as claimed): after a recompute of dc the used Space_X and Space_Y are
\* the sums of the placed modules' amounts on that unit, whatever the flags.
C5_SpaceIsUnsignedSum ==
    \A dc \in DataCenters :
        Recomputed(dc) =>
            \A u \in SpaceUnits \cap UnitsOf(Selected(dc)) :
                StoredValue(store, dc, None, u) = SumAmounts(AttributesOn(Selected(dc), u))
ValidatingOps == {"validate_component_values", "calculate_resources"}

Validated == last.op \in ValidatingOps /\ ~last.error

Dimension(dc, u) == IF u = "Space_X" THEN space_x[dc] ELSE space_y[dc]

\* the component instances a validation of (dc, component) examines
Examined(dc, component) ==
    IF component # None THEN {component}
    ELSE IF \E c \in Components : component_dc[c] = dc
    THEN {c \in Components : component_dc[c] = dc}
    ELSE Components

SpecIndexes == {x \in Components \X (1..6) : x[2] <= Len(specifications[x[1]])}

Exempt(attr) == attr.unconstrained # 0 \/ attr.amount = -1

\* kind Minimize or Maximize: one of these tags and no threshold kind
Advisory(attr) ==
    /\ attr.minimize # 0 \/ attr.maximize # 0
    /\ attr.below_amount = 0
    /\ attr.above_amount = 0

\* the last validation logged a violation of kind k for specification x
Warned(x, k) ==
    \E j \in 1..Len(last.warnings) :
        /\ last.warnings[j].component = x[1]
        /\ last.warnings[j].attr = x[2]
        /\ last.warnings[j].message.kind = k

Reported(x, k) ==
    \E j \in 1..Len(last.violations) :
        /\ last.violations[j].kind = k
        /\ last.violations[j].name = name[x[1]]
        /\ last.violations[j].unit = specifications[x[1]][x[2]].unit

TwoPSUs(ams) ==
    /\ Cardinality(ams) = 2
    /\ \A am \in ams : am.module = "PSU" /\ am.data_center_component = None

\* C6: the available space the view reports is width - used Space_X and
\* height - used Space_Y of the recomputed global totals, without clamping:
\* it is negative when the used space exceeds the dimension.  Two PSUs
\* (Space_X 10) in D1 (width 100) give used 20 and available 80.
C6_AvailableIsWidthMinusUsed ==
    last.op = "calculate_resources" =>
        LET dc == last.data_center
        IN  /\ \A n \in 1..2 :
                LET u == IF n = 1 THEN "Space_X" ELSE "Space_Y"
                IN  /\ last.available[n] = Dimension(dc, u) - StoredValue(store, dc, None, u)
                    /\ u \in UnitsOf(Selected(dc)) =>
                          last.available[n] =
                              Dimension(dc, u) - SumSigned(AttributesOn(Selected(dc), u))
                    /\ StoredValue(store, dc, None, u) > Dimension(dc, u) =>
                          last.available[n] < 0
            /\ (dc = "D1" /\ TwoPSUs(Selected(dc))) =>
                  /\ last.values.global_values["Space_X"] = 20
                  /\ last.available[1] = 80

\* C6 witness: the view has reported a negative available Space_X computed
\* from placed modules.
C6_Witness ==
    /\ last.op = "calculate_resources"
    /\ "Space_X" \in UnitsOf(Selected(last.data_center))
    /\ last.available[1] < 0

\* C7 (as claimed): when the combined Space_X (Space_Y) of the modules placed
\* in dc exceeds the width (height) of dc, a validation of dc fails with a
\* violation for that unit.
C7_OverflowIsFlagged ==
    (Validated /\ last.component = None) =>
        \A u \in SpaceUnits :
            SumAmounts(AttributesOn(Selected(last.data_center), u))
                    > Dimension(last.data_center, u)
                => /\ ~last.validation_passed
                   /\ \E j \in 1..Len(last.violations) : last.violations[j].unit = u

C9_ExemptNeverViolates ==
    Validated =>
        \A j \in 1..Len(last.warnings) :
            ~Exempt(specifications[last.warnings[j].component][last.warnings[j].attr])

\* C9 witness: Hall has been validated with its used Space_Y above the height
\* of the data center (its Space_Y specification is unconstrained) and with
\* Power above -1 (its Power specification with amount -1 is of kind Below).
C9_Witness ==
    /\ Validated
    /\ "B" \in Examined(last.data_center, last.component)
    /\ StoredValue(store, last.data_center, "B", "Space_Y") > space_y[last.data_center]
    /\ StoredValue(store, last.data_center, "B", "Power") > 0

\* C10 (as claimed): a specification of kind Minimize or Maximize produces
\* no violation, for any unit.
C10_AdvisoryNeverViolates ==
    Validated =>
        \A j \in 1..Len(last.warnings) :
            ~Advisory(specifications[last.warnings[j].component][last.warnings[j].attr])

\* C10 (amended): a specification of kind Minimize or Maximize on a unit other
\* than Space_X and Space_Y produces no violation and does not make the
\* validation fail; on Space_X or Space_Y it produces the "exceeds" violation
\* exactly when the component's used space is above the width or height.
C10_AdvisoryOffSpace ==
    Validated =>
        /\ \A x \in SpecIndexes :
              LET attr == specifications[x[1]][x[2]]
                  current == StoredValue(store, last.data_center, x[1], attr.unit)
              IN  (Advisory(attr) /\ ~Exempt(attr)) =>
                      /\ ~Warned(x, "below")
                      /\ ~Warned(x, "above")
                      /\ Warned(x, "exceeds") <=>
                            /\ x[1] \in Examined(last.data_center, last.component)
                            /\ attr.unit \in SpaceUnits
                            /\ current > Dimension(last.data_center, attr.unit)
        /\ ~last.validation_passed =>
              \E j \in 1..Len(last.warnings) :
                  LET attr == specifications[last.warnings[j].component][last.warnings[j].attr]
                  IN  ~Advisory(attr) \/ attr.unit \in SpaceUnits

\* C10 witness: Hall has passed a validation with a Power value below the
\* amount of its Maximize specification and used space within the data center.
C10_Witness ==
    /\ Validated
    /\ last.validation_passed
    /\ "B" \in Examined(last.data_center, last.component)
    /\ StoredValue(store, last.data_center, "B", "Power") < 0
    /\ StoredValue(store, last.data_center, "B", "Space_X") # 0

\* C11: for an examined, non-exempt specification on Space_X or Space_Y a
\* violation is produced exactly when the component's used space is above the
\* width (height) of the data center; the violation names the dimension as the
\* bound, and the specification's amount plays no part.
C11_SpaceComparedWithDimension ==
    Validated =>
        \A x \in SpecIndexes :
            LET attr == specifications[x[1]][x[2]]
                dc == last.data_center
                used == StoredValue(store, dc, x[1], attr.unit)
                over == /\ x[1] \in Examined(dc, last.component)
                        /\ used > Dimension(dc, attr.unit)
            IN  (~Exempt(attr) /\ attr.unit \in SpaceUnits) =>
                    /\ Warned(x, "exceeds") <=> over
                    /\ ~Warned(x, "below") /\ ~Warned(x, "above")
                    /\ over => /\ ~last.validation_passed
                               /\ [kind |-> "exceeds", name |-> name[x[1]],
                                   unit |-> attr.unit, current_value |-> used,
                                   bound |-> Dimension(dc, attr.unit)]
                                      \in {last.violations[j] : j \in 1..Len(last.violations)}

\* C11 witness: Rack was validated with used Space_X above the amount of its
\* Space_X specification (5) and within the width, and no Space_X violation
\* was produced.
C11_Witness ==
    /\ Validated
    /\ "A" \in Examined(last.data_center, last.component)
    /\ StoredValue(store, last.data_center, "A", "Space_X") > specifications["A"][3].amount
    /\ StoredValue(store, last.data_center, "A", "Space_X") <= space_x[last.data_center]
    /\ \A j \in 1..Len(last.violations) : last.violations[j].unit # "Space_X"

\* the verdict of kind k that specification attr gives on the value current
Verdict(attr, k, current, dc) ==
    IF attr.unit \in SpaceUnits
    THEN k = "exceeds" /\ current > Dimension(dc, attr.unit)
    ELSE \/ k = "below" /\ attr.below_amount # 0 /\ current > attr.amount
         \/ k = "above" /\ attr.above_amount # 0 /\ current < attr.amount

Kinds == {"below", "above", "exceeds"}

ViolatedTriples ==
    {<<last.warnings[j].component, last.warnings[j].message.unit,
       last.warnings[j].message.kind>> : j \in 1..Len(last.warnings)}

\* the last message produced for the triple t
LastMessage(t) ==
    LET js == {j \in 1..Len(last.warnings) :
                  /\ last.warnings[j].component = t[1]
                  /\ last.warnings[j].message.unit = t[2]
                  /\ last.warnings[j].message.kind = t[3]}
    IN  last.warnings[CHOOSE j \in js : \A i \in js : i <= j].message

\* C13 (as claimed): the list a validation returns holds one message per
\* violated (component, unit, kind) triple, the last one produced for that
\* triple; the violations of two different components are each in the list.
C13_OncePerTriple ==
    Validated =>
        /\ Len(last.violations) = Cardinality(ViolatedTriples)
        /\ \A t \in ViolatedTriples :
              \E j \in 1..Len(last.violations) : last.violations[j] = LastMessage(t)

\* the keys of dc for which the totals res hold a value
ComputedKeys(dc, res) ==
    {k \in Keys :
        /\ k[1] = dc
        /\ IF k[2] = None THEN k[3] \in DOMAIN res.global_values
           ELSE /\ k[2] \in DOMAIN res.component_values
                /\ k[3] \in DOMAIN res.component_values[k[2]]}

ComputedTotal(k, res) ==
    IF k[2] = None THEN res.global_values[k[3]]
    ELSE res.component_values[k[2]][k[3]]

C15_DuplicatesNeverRaised ==
    last.op \in RecomputeOps \cup {"create_active_module",
                                   "initialize_values_from_components"}
        => ~last.error

\* C16 (as claimed): an initialize of dc that completes writes one row of
\* value 0 for each (component, specification unit) key of dc without a row,
\* and leaves every existing row as it was.
C16_InitializeNeverOverwrites ==
    [][(last'.op = "initialize_values_from_components" /\ ~last'.error)
       => \A k \in Keys :
             IF Len(store[k]) > 0 THEN store'[k] = store[k]
             ELSE IF /\ k[1] = last'.data_center
                     /\ k[2] \in Components
                     /\ k[3] \in SpecificationUnits(k[2])
             THEN store'[k] = <<0>>
             ELSE store'[k] = <<>>]_vars

\* the keys of dc that a selected placement has an attribute for: the global
\* key of the attribute's unit and the key of the placement's component
TouchedKeys(ams, dc) ==
    {k \in Keys :
        /\ k[1] = dc
        /\ LET mine == IF k[2] = None THEN ams
                       ELSE {am \in ams : am.data_center_component = k[2]}
           IN  AttributesOn(mine, k[3]) # {}}

\* C17: a recompute of dc leaves the rows of every key that no selected
\* placement has an attribute for exactly as they were: none is created,
\* modified or deleted, in dc and in every other data center.
C17_OnlyTouchedKeysWritten ==
    [][(last'.op \in RecomputeOps \cup {"create_active_module"})
       => \A k \in Keys :
             k \notin TouchedKeys(SelectedFor(active_modules', component_dc',
                                              last'.data_center),
                                  last'.data_center)
                 => store'[k] = store[k]]_vars

\* C17 witness: a recompute of D1 over placements without a component has
\* rewritten the global Power rows of D1, while Rack's duplicate Power rows in
\* D1 and the hand-set Space_X row of D0 are as they were.
C17_Witness ==
    /\ legacy
    /\ last.op \in RecomputeOps
    /\ last.data_center = "D1"
    /\ Selected("D1") # {}
    /\ store[<<"D1", None, "Power">>] = <<500>>
    /\ store[<<"D1", "A", "Power">>] = <<3, 4>>
    /\ store[<<"D0", None, "Space_X">>] = <<999>>

LedgerOps == {"create_active_module", "update_active_module_position",
              "delete_active_module"}

\* C18 (as claimed): place, move and remove leave every DataCenterValue row
\* unchanged.
C18_LedgerNeverRecomputes ==
    [][last'.op \in LedgerOps => store' = store]_vars

\* C18 (amended): move and remove leave every DataCenterValue row unchanged;
\* place recomputes the data center of the new placement: afterwards every key
\* of that data center that a selected placement has an attribute for holds
\* one row with the signed sum, and every other row is unchanged.
C18_OnlyPlaceRecomputes ==
    [][/\ last'.op \in {"update_active_module_position", "delete_active_module"}
          => store' = store
       /\ last'.op = "create_active_module"
          => LET dc == last'.data_center
                 sel == SelectedFor(active_modules', component_dc', dc)
             IN  \A k \in Keys :
                    IF k \in TouchedKeys(sel, dc)
                    THEN LET mine == IF k[2] = None THEN sel
                                     ELSE {am \in sel : am.data_center_component = k[2]}
                         IN  store'[k] = <<SumSigned(AttributesOn(mine, k[3]))>>
                    ELSE store'[k] = store[k]]_vars

\* C18 witness: a placement has been moved while the totals of its data
\* center, written when it was placed, are in the store.
C18_Witness ==
    /\ last.op = "update_active_module_position"
    /\ ~last.error
    /\ \E am \in active_modules :
          /\ am.id = last.id
          /\ am.point \in MoveTargets
          /\ store[<<am.data_center, None, "Power">>]
                = <<SumSigned(AttributesOn(Selected(am.data_center), "Power"))>>
          /\ StoredValue(store, am.data_center, None, "Power") # 0

\* the data centers whose recompute selects the placement am
DataCentersOf(am) == {dc \in DataCenters : am \in Selected(dc)}

\* C19 (as claimed): every placement is selected by the recompute of exactly
\* one data center.
C19_ExactlyOneDataCenter ==
    \A am \in active_modules : Cardinality(DataCentersOf(am)) = 1

\* C20: the placement that create_active_module stores is bound to the
\* explicit data center when the request names one; else to the data center
\* its component is bound to, when it has a component that is bound; else to
\* the default data center.  That data center is the one recomputed.
C20_EffectiveDataCenter ==
    [][\A r \in PlaceRequests : \A p \in Points :
          create_active_module(r[1], r[2], r[3], p) =>
              \E am \in active_modules' :
                  /\ am.id = next_id
                  /\ am.module = r[1]
                  /\ am.data_center_component = r[2]
                  /\ r[3] # None => am.data_center = r[3]
                  /\ (r[3] = None /\ r[2] # None /\ component_dc[r[2]] # None)
                        => am.data_center = component_dc[r[2]]
                  /\ (r[3] = None /\ (r[2] = None \/ component_dc[r[2]] = None))
                        => am.data_center = DefaultDataCenter
                  /\ last'.data_center = am.data_center]_vars

\* C20 witness: Rack is bound to D1; one placement with Rack named D0
\* explicitly and is bound to D0, another with Rack named no data center and
\* is bound to D1.
C20_Witness ==
    /\ last.op = "create_active_module"
    /\ component_dc["A"] = "D1"
    /\ \E am \in active_modules :
          am.data_center_component = "A" /\ am.data_center = "D0"
    /\ \E am \in active_modules :
          am.data_center_component = "A" /\ am.data_center = "D1"

C22_RecomputesIndependent ==
    [][last'.op \in RecomputeOps
       => LET dc == last'.data_center
          IN  /\ \A am \in SelectedFor(active_modules, component_dc, dc) :
                    am.data_center = dc
              /\ \A k \in Keys : k[1] # dc => store'[k] = store[k]]_vars

\* C23: validate called without a data center signals a caller input error
\* and returns nothing: no verdict, no totals, no values read back; no
\* DataCenterValue row, placement or component binding is changed.  A call
\* that names a data center is not refused.
C23_MissingDataCenterSignalled ==
    [][/\ validate_component_values(None, None)
          => /\ last'.error
             /\ last'.data_center = None
             /\ last'.results = NoReturn.results
             /\ last'.values = NoReturn.values
             /\ last'.validation_passed = NoReturn.validation_passed
             /\ last'.violations = NoReturn.violations
             /\ store' = store
             /\ contributed' = contributed
             /\ active_modules' = active_modules
             /\ component_dc' = component_dc
       /\ (last'.op = "validate_component_values" /\ last'.data_center # None)
          => ~last'.error]_vars

\* a refused validation while placements and stale rows exist
C23_Witness ==
    /\ last.op = "validate_component_values"
    /\ last.error
    /\ active_modules # {}
    /\ \E am \in active_modules : am.data_center = DefaultDataCenter
    /\ \E k \in Keys : k[1] = DefaultDataCenter /\ store[k] # <<>>

\* the write half of worker w's recalculation is taken in this step
Writes(w) == pending[w] # NoCall /\ pending'[w] = NoCall

\* C24 (as claimed): a recalculation of dc is atomic with respect to the
\* other writers of dc's rows: when a worker writes its totals, every key it
\* computed a total for has one row afterwards, and a row that already holds
\* the total of the current placements of dc is not replaced by a total that
\* was aggregated from an earlier state of the ledger.
C24_RecomputeAtomic ==
    [][\A w \in Workers :
         Writes(w)
         => LET dc == pending[w].data_center
                current == calculate_resource_usage(Selected(dc))
            IN  /\ \A k \in ComputedKeys(dc, pending[w].results) : Len(store'[k]) = 1
                /\ \A k \in ComputedKeys(dc, current) :
                      store[k] = <<ComputedTotal(k, current)>> => store'[k] = store[k]]_vars

\* the rows of dc that a recompute leaves when it is the only operation that
\* ever wrote them: the history that places the placements ams and recomputes
DerivedRows(ams, dc) == PersistResults(EmptyStore, dc, calculate_resource_usage(ams))

\* C25 (as claimed): the rows of a data center are derived from its current
\* placements alone: from an empty table, whatever operations came before,
\* a recompute of dc leaves dc exactly the rows that placing the current
\* placements and recomputing once leaves.
C25_RowsDerivedFromPlacements ==
    [][(last'.op \in RecomputeOps /\ ~legacy)
       => LET dc == last'.data_center
          IN  \A k \in Keys :
                 k[1] = dc => store'[k] = DerivedRows(Selected(dc), dc)[k]]_vars

\* C26 (as claimed): the list of the placements of dc returns exactly the
\* placements that a recompute of dc aggregates over: those bound to dc
\* directly or through their component, with or without a component.
C26_ListIsRecomputeSelection ==
    [][(last'.op = "get_all_active_modules" /\ last'.data_center # None)
       => last'.listed = Selected(last'.data_center)]_vars

\* C27: a validation returns passed = False exactly when the violation list
\* it returns is not empty, and exactly when a violation was found at all:
\* collapsing the messages that share a (name, unit, kind) key never empties
\* the list.
C27_FailedIffViolations ==
    Validated =>
        /\ ~last.validation_passed <=> last.violations # <<>>
        /\ ~last.validation_passed <=> last.warnings # <<>>

\* C27 witness: a failed validation in which two violations were collapsed
\* into one returned message
C27_Witness ==
    /\ Validated
    /\ ~last.validation_passed
    /\ Len(last.violations) >= 1
    /\ Len(last.warnings) > Len(last.violations)

\* the total the totals res hold for component c and unit u, 0 when none
ComponentTotal(res, c, u) ==
    IF c \in DOMAIN res.component_values /\ u \in DOMAIN res.component_values[c]
    THEN res.component_values[c][u]
    ELSE 0

RECURSIVE SumComponentTotals(_, _, _)
SumComponentTotals(res, cs, u) ==
    IF cs = {} THEN 0
    ELSE LET c == CHOOSE x \in cs : TRUE
         IN  ComponentTotal(res, c, u) + SumComponentTotals(res, cs \ {c}, u)

\* the selected placements of dc that have no component
Unattached(dc) == {am \in Selected(dc) : am.data_center_component = None}

\* C28: in the totals one recompute of dc computes, the global total of every
\* unit is the sum of the components' totals of that unit plus the signed
\* amounts of the attributes of the selected placements without a component.
C28_GlobalIsComponentsPlusUnattached ==
    Recomputed(last.data_center) =>
        \A u \in DOMAIN last.results.global_values :
            last.results.global_values[u] =
                SumComponentTotals(last.results, Components, u)
                + SumSigned(AttributesOn(Unattached(last.data_center), u))

\* C28 witness: a recompute whose selection holds a Cabinet in Hall and a PSU
\* without a component: Power is 300 globally, -200 for Hall
C28_Witness ==
    /\ last.op \in RecomputeOps
    /\ Get(last.results.global_values, "Power", 0) = 300
    /\ ComponentTotal(last.results, "B", "Power") = 0 - 200
    /\ \E am \in Unattached(last.data_center) : am.module = "PSU"

\* the attributes of xs whose input flag is set, whatever their output flag
Inputs(xs) == {x \in xs : attributes[x[1].module][x[2]].is_input}

\* the attributes of xs whose output flag alone is set
OutputsOnly(xs) ==
    {x \in xs : /\ ~attributes[x[1].module][x[2]].is_input
                /\ attributes[x[1].module][x[2]].is_output}

\* C30: in a recompute of dc every attribute of a selected placement counts
\* -amount when its input flag is set, whatever its output flag, +amount when
\* only its output flag is set, and 0 when neither is set; the global key of
\* its unit is computed and written in all three cases.
C30_FlagsDecideSign ==
    Recomputed(last.data_center) =>
        LET dc == last.data_center
        IN  \A u \in UnitsOf(Selected(dc)) :
               LET xs == AttributesOn(Selected(dc), u)
                   total == SumAmounts(OutputsOnly(xs)) - SumAmounts(Inputs(xs))
               IN  /\ u \in DOMAIN last.results.global_values
                   /\ last.results.global_values[u] = total
                   /\ Len(store[<<dc, None, u>>]) = 1
                   /\ StoredValue(store, dc, None, u) = total

\* C30 witness: a recompute over a Cabinet and a PSU: Space_Y, which the
\* Cabinet has with both flags set, is 3 - 4; Price, which it has with neither
\* flag set, is written as 0
C30_Witness ==
    /\ last.op \in RecomputeOps
    /\ {am.module : am \in Selected(last.data_center)} = {"Cabinet", "PSU"}
    /\ last.results.global_values["Space_Y"] = 0 - 1
    /\ last.results.global_values["Price"] = 0
    /\ store[<<last.data_center, None, "Price">>] = <<0>>
    /\ store[<<last.data_center, None, "Power">>] = <<300>>

\* C29: starting from a table in which no key has two rows, no sequence of
\* create, move, delete, initialize, recompute and validate, run one at a
\* time, leaves a key with two rows.
C29_KeysStayUnique ==
    ~legacy => \A k \in Keys : Len(store[k]) <= 1

\* C29 witness: from the empty table, a placement was moved, and a
\* validation ran on a data center whose rows were written both by the
\* initialization pass (a component row of a unit no placement has) and by
\* recomputes
C29_Witness ==
    /\ ~legacy
    /\ last.op = "validate_component_values"
    /\ ~last.error
    /\ \E am \in active_modules : am.point \in MoveTargets
    /\ \E k \in Keys :
          /\ k[1] = last.data_center
          /\ k[2] # None
          /\ k[3] \notin UnitsOf(Selected(last.data_center))
          /\ Len(store[k]) = 1
    /\ \E u \in UnitsOf(Selected(last.data_center)) :
          Len(store[<<last.data_center, None, u>>]) = 1
====
